---------------------------- MODULE Spec2Model ----------------------------
(***************************************************************************)
(* Model of the two stages of the UC (AT, MT, BT) pipeline:                *)
(*   Compara3PJ.py          - the Dictionary (DDA) Builder                 *)
(*   CriaePopulaSQLitePJ.py - the Typed Loader into SQLite                 *)
(* Text is modelled as a sequence of one-character strings, so that        *)
(* lower(), startswith(), the CSV writer/reader and strptime are computed  *)
(* character by character.                                                 *)
(***************************************************************************)
EXTENDS Integers, Sequences, FiniteSets, TLC

(***************************************************************************)
(* Bounds of the model                                                     *)
(***************************************************************************)
\* longest tail appended to a stem when enumerating field names
MaxTail == 1
\* rows of a dataset's source file
MaxRows == 5
\* rows per chunk; the source sets 10000 (CriaePopulaSQLitePJ.py:31), scaled down
CHUNKSIZE == 2
\* rows of the Builder's sample; the source sets nrows=10000 (Compara3PJ.py:72), scaled down
NROWS == 2
\* columns of a dataset in the dictionary round trip
MaxCols == 2
\* values of the column coerced in one pass
MaxColLen == 2
\* digits of the fraction of a source date-time text
MaxFrac == 7

(***************************************************************************)
(* Text                                                                    *)
(***************************************************************************)
UpperChars == <<"A","B","C","D","E","F","G","H","I","J","K","L","M",
                "N","O","P","Q","R","S","T","U","V","W","X","Y","Z">>
LowerChars == <<"a","b","c","d","e","f","g","h","i","j","k","l","m",
                "n","o","p","q","r","s","t","u","v","w","x","y","z">>
DigitChars == <<"0","1","2","3","4","5","6","7","8","9">>

IsUpperCh(ch) == \E i \in 1..26 : UpperChars[i] = ch
IsLowerCh(ch) == \E i \in 1..26 : LowerChars[i] = ch
IsDigitCh(ch) == \E i \in 1..10 : DigitChars[i] = ch
DigitVal(ch)  == (CHOOSE i \in 1..10 : DigitChars[i] = ch) - 1

\* str.lower() / str.upper() on one character
LowerCh(ch) == IF IsUpperCh(ch)
               THEN LowerChars[CHOOSE i \in 1..26 : UpperChars[i] = ch] ELSE ch
UpperCh(ch) == IF IsLowerCh(ch)
               THEN UpperChars[CHOOSE i \in 1..26 : LowerChars[i] = ch] ELSE ch

\* str.lower()
lower(s) == [i \in 1..Len(s) |-> LowerCh(s[i])]
upper(s) == [i \in 1..Len(s) |-> UpperCh(s[i])]

\* the decimal text of a number
RECURSIVE NatText(_)
NatText(n) == IF n < 10 THEN <<DigitChars[n + 1]>>
              ELSE NatText(n \div 10) \o <<DigitChars[(n % 10) + 1]>>
IntText(v) == IF v < 0 THEN <<"-">> \o NatText(0 - v) ELSE NatText(v)

\* str.startswith(p)
startswith(s, p) == Len(s) >= Len(p) /\ SubSeq(s, 1, Len(p)) = p

(***************************************************************************)
(* Compara3PJ.map_tipo_aneel                                               *)
(***************************************************************************)
fic_    == <<"f","i","c","_">>
dic_    == <<"d","i","c","_">>
dem_    == <<"d","e","m","_">>
ene_    == <<"e","n","e","_">>
point_x == <<"p","o","i","n","t","_","x">>
point_y == <<"p","o","i","n","t","_","y">>

\* map_tipo_aneel with c = campo instead of c = campo.lower()
map_tipo_aneel_nolower(campo) ==
    LET c == campo IN
    IF startswith(c, fic_) THEN "INTEGER"
    ELSE IF startswith(c, dic_) \/ startswith(c, dem_) \/ startswith(c, ene_)
            \/ c \in {point_x, point_y} THEN "REAL"
    ELSE "TEXT"

map_tipo_aneel(campo) ==
    LET c == lower(campo) IN
    IF startswith(c, fic_) THEN "INTEGER"
    ELSE IF startswith(c, dic_) \/ startswith(c, dem_) \/ startswith(c, ene_)
            \/ c \in {point_x, point_y} THEN "REAL"
    ELSE "TEXT"

(***************************************************************************)
(* Field names the inference is exercised on: a stem, a short tail, and a  *)
(* letter-case style.                                                      *)
(***************************************************************************)
Stems == { <<>>, fic_, <<"f","i","c">>, <<"x","f","i","c","_">>, dic_, dem_,
           <<"d","e","m">>, ene_, <<"e","n","_","e">>, point_x, point_y,
           <<"p","o","i","n","t","_">>, <<"n","o","m">> }
TailChars == {"1", "_", "x", "y"}
Tails == UNION { [1..n -> TailChars] : n \in 0..MaxTail }

capitalize(s) == [i \in 1..Len(s) |-> IF i = 1 THEN UpperCh(s[i]) ELSE s[i]]
alternate(s)  == [i \in 1..Len(s) |-> IF i % 2 = 0 THEN UpperCh(s[i]) ELSE s[i]]
CaseVariants(s) == { lower(s), upper(s), capitalize(lower(s)), alternate(lower(s)) }

InferNames == UNION { CaseVariants(st \o tl) : st \in Stems, tl \in Tails }

\* a local name: v is evaluated once and F is applied to its value
Bind(v, F(_)) == CHOOSE r \in { F(x) : x \in {v} } : TRUE

(***************************************************************************)
(* Values of a DataFrame cell: a missing float (NaN), a number, a text,    *)
(* Python's None and pandas' NA.  One record shape for all of them.        *)
(***************************************************************************)
NaN    == [k |-> "nan",  n |-> 0, s |-> <<>>]
PyNone == [k |-> "none", n |-> 0, s |-> <<>>]
PdNA   == [k |-> "na",   n |-> 0, s |-> <<>>]
Num(v) == [k |-> "num",  n |-> v, s |-> <<>>]
Str(t) == [k |-> "str",  n |-> 0, s |-> t]

\* Series.notna()
notna(c) == c.k \notin {"nan", "none", "na"}

RECURSIVE DigitsValue(_)
DigitsValue(d) == IF d = <<>> THEN 0
                  ELSE DigitsValue(SubSeq(d, 1, Len(d) - 1)) * 10 + DigitVal(d[Len(d)])

AllDigits(d) == Len(d) > 0 /\ \A i \in 1..Len(d) : IsDigitCh(d[i])
IsIntText(s) == IF Len(s) > 0 /\ s[1] = "-" THEN AllDigits(Tail(s)) ELSE AllDigits(s)
ParseInt(s)  == IF s[1] = "-" THEN 0 - DigitsValue(Tail(s)) ELSE DigitsValue(s)

\* pd.to_numeric(..., errors="coerce") on one value: numbers stay, numeric text is
\* parsed, everything else (missing, other text) becomes NaN
to_numeric(c) == IF c.k = "num" THEN c
                 ELSE IF c.k = "str" /\ IsIntText(c.s) THEN Num(ParseInt(c.s))
                 ELSE NaN

\* .fillna(0) left out
fillna_skipped(c) == c
\* .fillna(0)
fillna0(c) == IF c.k = "nan" THEN Num(0) ELSE c

(***************************************************************************)
(* CriaePopulaSQLitePJ.parse_date:                                         *)
(*   datetime.strptime(val, '%d%b%Y:%H:%M:%S.%f').strftime('%Y-%m-%dT%H:%M:%S') *)
(* any exception gives None.                                               *)
(***************************************************************************)
MonthAbbr == << <<"j","a","n">>, <<"f","e","b">>, <<"m","a","r">>, <<"a","p","r">>,
                <<"m","a","y">>, <<"j","u","n">>, <<"j","u","l">>, <<"a","u","g">>,
                <<"s","e","p">>, <<"o","c","t">>, <<"n","o","v">>, <<"d","e","c">> >>

IsLeap(y) == (y % 4 = 0 /\ y % 100 # 0) \/ y % 400 = 0
DaysIn(m, y) == IF m = 2 THEN (IF IsLeap(y) THEN 29 ELSE 28)
                ELSE IF m \in {4, 6, 9, 11} THEN 30 ELSE 31

DigitAt(s, p) == p >= 1 /\ p <= Len(s) /\ IsDigitCh(s[p])
CharAt(s, p, ch) == p >= 1 /\ p <= Len(s) /\ s[p] = ch
NoField == [ok |-> FALSE, v |-> 0, nx |-> 0]

\* a one- or two-digit directive (%d %H %M %S): the two-digit alternatives of the
\* directive's pattern are tried first, then the single digit
NumField(s, p, lo2, hi2, lo1) ==
    IF DigitAt(s, p) /\ DigitAt(s, p + 1)
       /\ 10 * DigitVal(s[p]) + DigitVal(s[p + 1]) \in lo2..hi2
    THEN [ok |-> TRUE, v |-> 10 * DigitVal(s[p]) + DigitVal(s[p + 1]), nx |-> p + 2]
    ELSE IF DigitAt(s, p) /\ DigitVal(s[p]) >= lo1
    THEN [ok |-> TRUE, v |-> DigitVal(s[p]), nx |-> p + 1]
    ELSE NoField

\* %b: a month abbreviation, matched ignoring case
MonthField(s, p) ==
    IF p + 2 <= Len(s) /\ \E m \in 1..12 : lower(SubSeq(s, p, p + 2)) = MonthAbbr[m]
    THEN [ok |-> TRUE, v |-> CHOOSE m \in 1..12 : lower(SubSeq(s, p, p + 2)) = MonthAbbr[m],
          nx |-> p + 3]
    ELSE NoField

\* %Y: exactly four digits
YearField(s, p) ==
    IF \A i \in p..(p + 3) : DigitAt(s, i)
    THEN [ok |-> TRUE, v |-> DigitsValue(SubSeq(s, p, p + 3)), nx |-> p + 4]
    ELSE NoField

\* %f: one to six digits
FracField(s, p) ==
    LET n == Cardinality({ i \in p..Len(s) : \A j \in p..i : DigitAt(s, j) })
        t == IF n > 6 THEN 6 ELSE n
    IN  IF t >= 1 THEN [ok |-> TRUE, v |-> 0, nx |-> p + t] ELSE NoField

NoDate == [ok |-> FALSE, Y |-> 0, m |-> 0, d |-> 0, H |-> 0, M |-> 0, S |-> 0]

\* datetime.strptime(s, '%d%b%Y:%H:%M:%S.%f'); ok = FALSE stands for ValueError
strptime(text) ==
    Bind(text, LAMBDA s :
    Bind(NumField(s, 1, 1, 31, 1), LAMBDA d :
    Bind(IF d.ok THEN MonthField(s, d.nx) ELSE NoField, LAMBDA b :
    Bind(IF b.ok THEN YearField(s, b.nx) ELSE NoField, LAMBDA y :
    Bind(IF y.ok /\ CharAt(s, y.nx, ":")
         THEN NumField(s, y.nx + 1, 0, 23, 0) ELSE NoField, LAMBDA h :
    Bind(IF h.ok /\ CharAt(s, h.nx, ":")
         THEN NumField(s, h.nx + 1, 0, 59, 0) ELSE NoField, LAMBDA mi :
    Bind(IF mi.ok /\ CharAt(s, mi.nx, ":")
         THEN NumField(s, mi.nx + 1, 0, 61, 0) ELSE NoField, LAMBDA se :
    Bind(IF se.ok /\ CharAt(s, se.nx, ".")
         THEN FracField(s, se.nx + 1) ELSE NoField, LAMBDA f :
        IF f.ok /\ f.nx = Len(s) + 1          \* else "unconverted data remains"
           /\ d.v <= DaysIn(b.v, y.v)          \* else "day is out of range for month"
           /\ se.v <= 59                       \* else "second must be in 0..59"
        THEN [ok |-> TRUE, Y |-> y.v, m |-> b.v, d |-> d.v, H |-> h.v, M |-> mi.v, S |-> se.v]
        ELSE NoDate))))))))

DigitOf(v, unit) == DigitChars[((v \div unit) % 10) + 1]
Pad2(v) == << DigitOf(v, 10), DigitOf(v, 1) >>
Pad4(v) == << DigitOf(v, 1000), DigitOf(v, 100), DigitOf(v, 10), DigitOf(v, 1) >>

\* dt.strftime('%Y-%m-%dT%H:%M:%S')
strftime(dt) == Pad4(dt.Y) \o <<"-">> \o Pad2(dt.m) \o <<"-">> \o Pad2(dt.d) \o <<"T">>
                \o Pad2(dt.H) \o <<":">> \o Pad2(dt.M) \o <<":">> \o Pad2(dt.S)

\* a value that is not a str (NaN, a number) raises TypeError, caught as well
parse_date(val) ==
    IF val.k # "str" THEN PyNone
    ELSE Bind(strptime(val.s), LAMBDA dt : IF dt.ok THEN Str(strftime(dt)) ELSE PyNone)

(***************************************************************************)
(* The Dictionary (DDA) File: written by DataFrame.to_csv(sep=";"), read   *)
(* back by pd.read_csv(sep=";").  A file is its sequence of lines.         *)
(***************************************************************************)
SEP   == ";"
QUOTE == "\""

TypeText == [INTEGER |-> <<"I","N","T","E","G","E","R">>,
             REAL    |-> <<"R","E","A","L">>,
             TEXT    |-> <<"T","E","X","T">>]
DtypeText == [int64   |-> <<"i","n","t","6","4">>,
              float64 |-> <<"f","l","o","a","t","6","4">>,
              object  |-> <<"o","b","j","e","c","t">>]
CAMPO        == <<"c","a","m","p","o">>
PANDAS_DTYPE == <<"p","a","n","d","a","s","_","d","t","y","p","e">>
TIPO_ANEEL   == <<"t","i","p","o","_","a","n","e","e","l">>

RECURSIVE DoubleQuotes(_)
DoubleQuotes(f) == IF f = <<>> THEN <<>>
                   ELSE (IF Head(f) = QUOTE THEN <<QUOTE, QUOTE>> ELSE <<Head(f)>>)
                        \o DoubleQuotes(Tail(f))

\* csv.QUOTE_MINIMAL: a field holding the separator or the quote character is
\* quoted, its quotes doubled
QuoteField(f) == IF \E i \in 1..Len(f) : f[i] \in {SEP, QUOTE}
                 THEN <<QUOTE>> \o DoubleQuotes(f) \o <<QUOTE>> ELSE f

RECURSIVE CsvLine(_)
CsvLine(fields) == IF Len(fields) = 1 THEN QuoteField(fields[1])
                   ELSE QuoteField(Head(fields)) \o <<SEP>> \o CsvLine(Tail(fields))

\* the reader's tokenizer on one line
RECURSIVE SplitLine(_, _, _, _, _)
SplitLine(line, p, inQ, cur, acc) ==
    IF p > Len(line) THEN Append(acc, cur)
    ELSE IF inQ THEN
        IF line[p] = QUOTE
        THEN IF p + 1 <= Len(line) /\ line[p + 1] = QUOTE
             THEN SplitLine(line, p + 2, TRUE, Append(cur, QUOTE), acc)
             ELSE SplitLine(line, p + 1, FALSE, cur, acc)
        ELSE SplitLine(line, p + 1, TRUE, Append(cur, line[p]), acc)
    ELSE IF line[p] = SEP THEN SplitLine(line, p + 1, FALSE, <<>>, Append(acc, cur))
    ELSE IF line[p] = QUOTE /\ cur = <<>> THEN SplitLine(line, p + 1, TRUE, cur, acc)
    ELSE SplitLine(line, p + 1, FALSE, Append(cur, line[p]), acc)

ParseLine(line) == Bind(line, LAMBDA l : SplitLine(l, 1, FALSE, <<>>, <<>>))
\* every line of a file, tokenized
RECURSIVE ParseLines(_)
ParseLines(file) == IF file = <<>> THEN <<>>
                    ELSE <<ParseLine(Head(file))>> \o ParseLines(Tail(file))

\* texts read_csv takes for a missing value by default (keep_default_na=True)
NA_VALUES == { <<>>, <<"N","A">>, <<"N","/","A">>, <<"n","/","a">>, <<"N","U","L","L">>,
               <<"n","u","l","l">>, <<"N","a","N">>, <<"n","a","n">>, <<"N","o","n","e">> }

\* read_csv's conversion of one column of texts: default NA texts become NaN; a
\* column whose other texts are all numbers becomes numeric, else its texts stay
ConvertColumn(texts) ==
    LET present == { i \in 1..Len(texts) : texts[i] \notin NA_VALUES }
        numeric == present # {} /\ \A i \in present : IsIntText(texts[i])
    IN  [i \in 1..Len(texts) |->
            IF i \notin present THEN NaN
            ELSE IF numeric THEN Num(ParseInt(texts[i])) ELSE Str(texts[i])]

\* pd.read_csv of a delimited file with a header line: column name -> values
read_csv(file) ==
    Bind(ParseLines(file), LAMBDA lines :
    Bind(Head(lines), LAMBDA header :
    Bind(Tail(lines), LAMBDA body :
        [name \in { header[j] : j \in 1..Len(header) } |->
            LET j == CHOOSE j \in 1..Len(header) : header[j] = name
            IN  ConvertColumn([r \in 1..Len(body) |->
                    IF j <= Len(body[r]) THEN body[r][j] ELSE <<>>])])))

\* df[col].dtype.name of a column after the adjustment pass
dtype_name(values, t) ==
    IF t \in {"REAL", "INTEGER"}
    THEN (IF \A i \in 1..Len(values) : to_numeric(values[i]).k = "num"
          THEN "int64" ELSE "float64")
    ELSE (IF Len(values) > 0 /\ \A i \in 1..Len(values) : values[i].k = "num"
          THEN "int64" ELSE "object")

\* processar_tipo step 4: one row per column of the sample
dda_rows(columns, df) ==
    [i \in 1..Len(columns) |->
        [campo |-> columns[i],
         pandas_dtype |-> dtype_name(df[columns[i]], map_tipo_aneel(columns[i])),
         tipo_aneel |-> map_tipo_aneel(columns[i])]]

\* processar_tipo step 5: dda_df.to_csv(out_path, sep=";", index=False)
to_csv(rows) ==
    << CsvLine(<<CAMPO, PANDAS_DTYPE, TIPO_ANEEL>>) >> \o
    [i \in 1..Len(rows) |->
        CsvLine(<< rows[i].campo, DtypeText[rows[i].pandas_dtype],
                   TypeText[rows[i].tipo_aneel] >>)]

\* load_dda: dict(zip(dda_df['campo'], dda_df['tipo_aneel'])); a later row wins
load_dda(file) ==
    Bind(read_csv(file), LAMBDA dda_df :
    Bind(dda_df[CAMPO], LAMBDA campo :
    Bind(dda_df[TIPO_ANEEL], LAMBDA tipo :
        [key \in { campo[i] : i \in 1..Len(campo) } |->
            tipo[CHOOSE i \in 1..Len(campo) :
                    campo[i] = key /\ \A j \in (i + 1)..Len(campo) : campo[j] # key]])))

\* the declared type a loaded dictionary value names, "?" when it names none
\* (SQL_TYPE_MAP[...] raises KeyError for it)
TipoOf(cell) == IF cell = Str(TypeText.INTEGER) THEN "INTEGER"
                ELSE IF cell = Str(TypeText.REAL) THEN "REAL"
                ELSE IF cell = Str(TypeText.TEXT) THEN "TEXT" ELSE "?"

(***************************************************************************)
(* State                                                                   *)
(***************************************************************************)
VARIABLES
    \* calls of map_tipo_aneel
    ipc, iCampo, iVariant, iTipo, iTipoVariant,
    \* one column through the Builder's adjustment pass and the Loader's chunk pass
    cpc, cCol, cValues, cSample, cChunk,
    \* one dataset's dictionary: built, built again, loaded
    dpc, dColumns, dSample, dFile, dFirstFile, dMap,
    \* a run of Compara3PJ.py
    bpc, bIdx, bInputDir, bFiles, bFault, bDda, bAttempted, bErrors, bReported,
    \* a run of CriaePopulaSQLitePJ.py
    lpc, lIdx, lInputDir, lDdaDir, lFiles, lDdaFiles, recreate, dbExists, dbDeleted,
    tables, source, fault, first, batch, pos, tipoMap, writeLog, reported,
    batchReport, finished, prior

inferVars  == <<ipc, iCampo, iVariant, iTipo, iTipoVariant>>
coerceVars == <<cpc, cCol, cValues, cSample, cChunk>>
ddaVars    == <<dpc, dColumns, dSample, dFile, dFirstFile, dMap>>
builderVars == <<bpc, bIdx, bInputDir, bFiles, bFault, bDda, bAttempted, bErrors, bReported>>
loaderVars == <<lpc, lIdx, lInputDir, lDdaDir, lFiles, lDdaFiles, recreate, dbExists,
                dbDeleted, tables, source, fault, first, batch, pos, tipoMap, writeLog,
                reported, batchReport, finished, prior>>
vars == <<inferVars, coerceVars, ddaVars, builderVars, loaderVars>>

\* the three tiers, in the order of the FILES dictionary / the tuple of __main__
TIPOS == <<"at", "mt", "bt">>
Tp == {"at", "mt", "bt"}
NoFile == <<>>

\* the parts of the state a specification does not use
InferIdle  == ipc = "off" /\ iCampo = <<>> /\ iVariant = <<>> /\ iTipo = "" /\ iTipoVariant = ""
CoerceIdle == cpc = "off" /\ cCol = <<>> /\ cValues = <<>> /\ cSample = <<>> /\ cChunk = <<>>
DdaIdle    == dpc = "off" /\ dColumns = <<>> /\ dSample = <<>> /\ dFile = NoFile
              /\ dFirstFile = NoFile /\ dMap = <<>>
BuilderIdle == bpc = "off" /\ bIdx = 0 /\ bInputDir = FALSE /\ bFiles = <<>> /\ bFault = <<>>
               /\ bDda = <<>> /\ bAttempted = <<>> /\ bErrors = <<>> /\ bReported = <<>>
LoaderIdle == lpc = "off" /\ lIdx = 0 /\ lInputDir = FALSE /\ lDdaDir = FALSE /\ lFiles = <<>>
              /\ lDdaFiles = <<>> /\ recreate = FALSE /\ dbExists = FALSE /\ dbDeleted = FALSE
              /\ tables = <<>> /\ source = <<>> /\ fault = <<>> /\ first = FALSE /\ batch = 0
              /\ pos = 0 /\ tipoMap = <<>> /\ writeLog = <<>> /\ reported = <<>>
              /\ batchReport = <<>> /\ finished = FALSE /\ prior = ""

(***************************************************************************)
(* SpecInfer: map_tipo_aneel applied to a field name and to the same name  *)
(* in another letter case.                                                 *)
(***************************************************************************)
InitInfer ==
    /\ iCampo \in InferNames
    /\ iVariant \in CaseVariants(iCampo)
    /\ ipc = "first" /\ iTipo = "" /\ iTipoVariant = ""
    /\ CoerceIdle /\ DdaIdle /\ BuilderIdle /\ LoaderIdle

InferFirst ==
    /\ ipc = "first"
    /\ iTipo' = map_tipo_aneel(iCampo)
    /\ ipc' = "second"
    /\ UNCHANGED <<iCampo, iVariant, iTipoVariant, coerceVars, ddaVars, builderVars, loaderVars>>

InferSecond ==
    /\ ipc = "second"
    /\ iTipoVariant' = map_tipo_aneel(iVariant)
    /\ ipc' = "done"
    /\ UNCHANGED <<iCampo, iVariant, iTipo, coerceVars, ddaVars, builderVars, loaderVars>>

NextInfer == InferFirst \/ InferSecond
SpecInfer == InitInfer /\ [][NextInfer]_vars

(***************************************************************************)
(* The per-column passes of the two stages                                 *)
(***************************************************************************)
DATA_BASE   == <<"D","A","T","A","_","B","A","S","E">>
DATE_FIELDS == { DATA_BASE }

\* Compara3PJ.processar_tipo step 2, on one column of the sample
AdjustSample(col, values) ==
    LET t == map_tipo_aneel(col) IN
    [i \in 1..Len(values) |->
        IF t \in {"REAL", "INTEGER"} THEN fillna0(to_numeric(values[i]))
        ELSE IF notna(values[i]) THEN values[i] ELSE PdNA]

\* CriaePopulaSQLitePJ.importa_tipo, the conversion of one column of a chunk;
\* t is the dictionary's declared type of the column
CoerceChunk(col, t, values) ==
    [i \in 1..Len(values) |->
        IF t \in {"REAL", "INTEGER"} THEN fillna0(to_numeric(values[i]))
        ELSE IF col \in DATE_FIELDS THEN parse_date(values[i])
        ELSE IF notna(values[i]) THEN values[i] ELSE PyNone]

(***************************************************************************)
(* SpecCoerce: one column of values goes through the Builder's sample pass,*)
(* the dictionary is written and loaded, and the Loader converts the same  *)
(* column as one chunk.                                                    *)
(***************************************************************************)
FIC_1   == <<"F","I","C","_","1">>
dem_pot == <<"d","e","m","_","p","o","t">>
nom_cli == <<"n","o","m","_","c","l","i">>
CoerceCols == { DATA_BASE, FIC_1, dem_pot, nom_cli }

Zeros(n) == [i \in 1..n |-> "0"]
\* the source's date-time text: DDMONYYYY:HH:MM:SS.fraction
SrcDateText(dt, fl) ==
    Pad2(dt.d) \o upper(MonthAbbr[dt.m]) \o Pad4(dt.Y) \o <<":">> \o Pad2(dt.H) \o <<":">>
    \o Pad2(dt.M) \o <<":">> \o Pad2(dt.S) \o <<".">> \o Zeros(fl)
\* the canonical text YYYY-MM-DDTHH:MM:SS
IsoDateText(dt) ==
    Pad4(dt.Y) \o <<"-">> \o Pad2(dt.m) \o <<"-">> \o Pad2(dt.d) \o <<"T">> \o Pad2(dt.H)
    \o <<":">> \o Pad2(dt.M) \o <<":">> \o Pad2(dt.S)

\* 31 Dec 2023 and 29 Feb 2024 are calendar dates, 29 Feb 2023 is not
DateStamps == { [ok |-> TRUE, Y |-> 2023, m |-> mm, d |-> dd, H |-> 0, M |-> 0, S |-> 0] :
                <<mm, dd>> \in { <<12, 31>>, <<2, 29>> } }
              \cup { [ok |-> TRUE, Y |-> 2024, m |-> 2, d |-> 29, H |-> 23, M |-> 59, S |-> 58] }
FracLens == {1, 6, MaxFrac}
IsCalendarDate(dt) == dt.d <= DaysIn(dt.m, dt.Y)

TXT_12     == <<"1","2">>
TXT_NEG3   == <<"-","3">>
TXT_ABC    == <<"a","b","c">>
TXT_1C5    == <<"1",",","5">>
TXT_DAY    == <<"3","1","D","E","C","2","0","2","3">>
TXT_ISODAY == <<"2","0","2","3","-","1","2","-","3","1">>
DEC31 == [ok |-> TRUE, Y |-> 2023, m |-> 12, d |-> 31, H |-> 0, M |-> 0, S |-> 0]

CellsFor(col) ==
    IF col \in DATE_FIELDS
    THEN { Str(SrcDateText(dt, fl)) : dt \in DateStamps, fl \in FracLens }
         \cup { NaN, Num(20231231), Str(TXT_DAY), Str(TXT_ISODAY), Str(lower(SrcDateText(DEC31, 1))) }
    ELSE IF col = nom_cli THEN { NaN, Num(7), Str(TXT_ABC), Str(TXT_12) }
    ELSE { NaN, Num(0), Num(7), Str(TXT_12), Str(TXT_NEG3), Str(TXT_ABC), Str(TXT_1C5),
           Str(SrcDateText(DEC31, 6)) }

InitCoerce ==
    /\ cCol \in CoerceCols
    /\ cValues \in UNION { [1..n -> CellsFor(cCol)] : n \in 1..MaxColLen }
    /\ cpc = "builder" /\ cSample = <<>> /\ cChunk = <<>>
    /\ InferIdle /\ DdaIdle /\ BuilderIdle /\ LoaderIdle

\* the Builder's pass over the sample
BuilderAdjust ==
    /\ cpc = "builder"
    /\ cSample' = AdjustSample(cCol, cValues)
    /\ cpc' = "loader"
    /\ UNCHANGED <<cCol, cValues, cChunk, inferVars, ddaVars, builderVars, loaderVars>>

\* the Loader's pass over the chunk, with the type read from the dictionary the
\* Builder wrote for the column
LoaderCoerce ==
    /\ cpc = "loader"
    /\ \E tipo_map \in { load_dda(to_csv(dda_rows(<<cCol>>, [c \in {cCol} |-> cSample]))) } :
            cChunk' = CoerceChunk(cCol, TipoOf(tipo_map[Str(cCol)]), cValues)
    /\ cpc' = "done"
    /\ UNCHANGED <<cCol, cValues, cSample, inferVars, ddaVars, builderVars, loaderVars>>

NextCoerce == BuilderAdjust \/ LoaderCoerce
SpecCoerce == InitCoerce /\ [][NextCoerce]_vars

(***************************************************************************)
(* SpecDda: the dictionary of one dataset is built from a sample, built    *)
(* again from the same sample, and loaded by the Loader.                   *)
(***************************************************************************)
TXT_NA   == <<"N","A">>
TXT_NULL == <<"n","u","l","l">>
TXT_123  == <<"1","2","3">>
TXT_A_B  == <<"a",";","b">>
TXT_AQB  == <<"a","\"","b">>
DdaNames == { DATA_BASE, FIC_1, dem_pot, nom_cli, upper(point_x), TXT_NA, TXT_NULL,
              TXT_123, TXT_A_B, TXT_AQB }
SampleCells == { NaN, Num(7), Str(TXT_ABC) }

\* processar_tipo steps 2, 4 and 5 on a sample df with the given columns: the text
\* of the Dictionary File
build_dda(columns, df) ==
    to_csv(dda_rows(columns, [c \in DOMAIN df |-> AdjustSample(c, df[c])]))

InitDda ==
    /\ dColumns \in { cs \in UNION { [1..n -> DdaNames] : n \in 1..MaxCols } :
                        \A i, j \in 1..Len(cs) : i # j => cs[i] # cs[j] }
    /\ dSample \in [ { dColumns[i] : i \in 1..Len(dColumns) } ->
                        { <<c>> : c \in SampleCells } ]
    /\ dpc = "build" /\ dFile = NoFile /\ dFirstFile = NoFile /\ dMap = <<>>
    /\ InferIdle /\ CoerceIdle /\ BuilderIdle /\ LoaderIdle

\* the Builder's first run on the dataset
BuildDda ==
    /\ dpc = "build"
    /\ dFile' = build_dda(dColumns, dSample)
    /\ dFirstFile' = dFile'
    /\ dpc' = "built"
    /\ UNCHANGED <<dColumns, dSample, dMap, inferVars, coerceVars, builderVars, loaderVars>>

\* the Builder run again on the same source: the file is overwritten
RebuildDda ==
    /\ dpc = "built"
    /\ dFile' = build_dda(dColumns, dSample)
    /\ dpc' = "rebuilt"
    /\ UNCHANGED <<dColumns, dSample, dFirstFile, dMap, inferVars, coerceVars, builderVars,
                   loaderVars>>

\* the Loader's load_dda on the file
LoadDda ==
    /\ dpc \in {"built", "rebuilt"}
    /\ dMap' = load_dda(dFile)
    /\ dpc' = "loaded"
    /\ UNCHANGED <<dColumns, dSample, dFile, dFirstFile, inferVars, coerceVars, builderVars,
                   loaderVars>>

NextDda == BuildDda \/ RebuildDda \/ LoadDda
SpecDda == InitDda /\ [][NextDda]_vars

(***************************************************************************)
(* The datasets: every tier has the same five columns; row i of a tier's   *)
(* source cycles through the kinds of value each column can hold.          *)
(***************************************************************************)
COD_ID  == <<"C","O","D","_","I","D">>
COLUMNS == <<COD_ID, DATA_BASE, FIC_1, dem_pot, nom_cli>>
\* the letter a tier's identifiers start with
TierTag == [at |-> "a", mt |-> "m", bt |-> "b"]
ColumnSet == { COLUMNS[j] : j \in 1..Len(COLUMNS) }
Cycle(seq, i) == seq[(i % Len(seq)) + 1]
TierOffset(tp) == CHOOSE j \in 1..3 : TIPOS[j] = tp

SourceRow(tp, i) ==
    LET j == i + TierOffset(tp) IN
    [c \in ColumnSet |->
        IF c = COD_ID THEN Str(<<TierTag[tp]>> \o NatText(i))
        ELSE IF c = DATA_BASE THEN Cycle(<< Str(SrcDateText(DEC31, 6)), NaN,
                                       Str(SrcDateText(DEC31, MaxFrac)), Str(TXT_DAY) >>, j)
        ELSE IF c = FIC_1 THEN Cycle(<< Num(7), Str(TXT_ABC), NaN, Str(TXT_12) >>, j)
        ELSE IF c = dem_pot THEN Cycle(<< NaN, Num(3), Str(TXT_1C5) >>, j)
        ELSE Cycle(<< Str(TXT_ABC), NaN >>, j)]

\* the rows of a source file of n rows
SourceRows(tp, n) == [i \in 1..n |-> SourceRow(tp, i)]
\* a DataFrame of rows, by column
Frame(rows) == [c \in ColumnSet |-> [i \in 1..Len(rows) |-> rows[i][c]]]
Min(a, b) == IF a < b THEN a ELSE b

\* the Dictionary File processar_tipo writes for a tier whose source has n rows:
\* read_csv(nrows=...) keeps at most the first NROWS rows
TierDda(tp, n) == build_dda(COLUMNS, Frame(SourceRows(tp, Min(n, NROWS))))
\* a Dictionary File left by an earlier run on another source
StaleDda == to_csv(dda_rows(<<nom_cli>>, [c \in {nom_cli} |-> <<>>]))

(***************************************************************************)
(* SpecBuilder: a run of Compara3PJ.py.  bFault[tp] is the step of         *)
(* processar_tipo(tp) at which the environment makes it raise, if any.     *)
(***************************************************************************)
BuilderFaults(tp) == {"none", "read", "coerce", "write"}
                     \cup (IF tp = "bt" THEN {"container"} ELSE {})

InitBuilder ==
    /\ bInputDir \in BOOLEAN
    /\ bFiles \in [Tp -> BOOLEAN]
    /\ bInputDir = FALSE => \A tp \in Tp : bFiles[tp] = FALSE
    /\ bFault \in { f \in [Tp -> {"none", "read", "container", "coerce", "write"}] :
                      \A tp \in Tp : f[tp] \in BuilderFaults(tp) }
    /\ bDda \in [Tp -> {NoFile, StaleDda}]
    \* a run that fails the pre-flight never reaches a dataset: one environment is enough
    /\ (\E tp \in Tp : ~bFiles[tp]) =>
            (\A tp \in Tp : bFault[tp] = "none" /\ bDda[tp] = NoFile)
    /\ bpc = "verify" /\ bIdx = 0 /\ bAttempted = <<>> /\ bErrors = <<>> /\ bReported = <<>>
    /\ InferIdle /\ CoerceIdle /\ DdaIdle /\ LoaderIdle

\* verify_environment: the missing items, in the order they are appended
builder_missing ==
    (IF ~bInputDir THEN << <<"dir", "input">> >> ELSE <<>>)
    \o [j \in 1..Len(SelectSeq(TIPOS, LAMBDA tp : ~bFiles[tp])) |->
            << "data", SelectSeq(TIPOS, LAMBDA tp : ~bFiles[tp])[j] >>]

VerifyEnvironment ==
    /\ bpc = "verify"
    /\ IF builder_missing # <<>>
       THEN /\ bReported' = builder_missing       \* one [ERRO] line each, then sys.exit(1)
            /\ bpc' = "exit1"
            /\ bIdx' = bIdx
       ELSE /\ bReported' = bReported
            /\ bpc' = "loop"
            /\ bIdx' = 1
    /\ UNCHANGED <<bInputDir, bFiles, bFault, bDda, bAttempted, bErrors,
                   inferVars, coerceVars, ddaVars, loaderVars>>

\* where the run goes when the body of processar_tipo raises: without the
\* except clause the exception leaves the for loop of __main__
except_missing == "propagate"
\* the except Exception clause of processar_tipo
except_Exception == "caught"

\* processar_tipo(tp) for the next tier of the for loop
ProcessarTipo ==
    /\ bpc = "loop"
    /\ bIdx \in 1..3
    /\ LET tp == TIPOS[bIdx] IN
       /\ bAttempted' = Append(bAttempted, tp)
       /\ IF bFault[tp] = "none"
          THEN /\ bDda' = [bDda EXCEPT ![tp] = TierDda(tp, MaxRows)]
               /\ bErrors' = bErrors
               /\ bpc' = IF bIdx = 3 THEN "finish" ELSE "loop"
               /\ bIdx' = bIdx + 1
          ELSE /\ bDda' = bDda
               /\ IF except_Exception = "caught"
                  THEN /\ bErrors' = Append(bErrors, tp)     \* [ERROR] and the traceback
                       /\ bpc' = IF bIdx = 3 THEN "finish" ELSE "loop"
                       /\ bIdx' = bIdx + 1
                  ELSE /\ bErrors' = bErrors
                       /\ bpc' = "crashed"
                       /\ bIdx' = bIdx
    /\ UNCHANGED <<bInputDir, bFiles, bFault, bReported,
                   inferVars, coerceVars, ddaVars, loaderVars>>

\* the closing print of __main__
BuilderFinish ==
    /\ bpc = "finish"
    /\ bpc' = "done"
    /\ UNCHANGED <<bIdx, bInputDir, bFiles, bFault, bDda, bAttempted, bErrors, bReported,
                   inferVars, coerceVars, ddaVars, loaderVars>>

NextBuilder == VerifyEnvironment \/ ProcessarTipo \/ BuilderFinish
SpecBuilder == InitBuilder /\ [][NextBuilder]_vars

(***************************************************************************)
(* Spec: a run of CriaePopulaSQLitePJ.py.                                  *)
(*   source[tp]  rows of the tier's source file (its rows are SourceRows)  *)
(*   tables[tp]  table uc_<tp>_pj of the store                             *)
(*   writeLog    the to_sql calls made so far, in order                    *)
(*   fault       the step at which the environment makes the run raise:    *)
(*               at = 0 in load_dda / opening the reader, at = k in the    *)
(*               k-th chunk of tier tp; tp = "none" for a run without one  *)
(*   prior       what an earlier run left: no store, an empty store, or a  *)
(*               store holding the three tables                            *)
(***************************************************************************)
MaxChunks == (MaxRows + CHUNKSIZE - 1) \div CHUNKSIZE
\* rows of a source file: none, less than a chunk, exactly one chunk, several chunks
SourceSizes == {0, 1, CHUNKSIZE, MaxRows}
NoTable == [exists |-> FALSE, typed |-> FALSE, rows |-> <<>>]
NoFault == [tp |-> "none", at |-> 0]

\* importa_tipo's conversion of a chunk: the columns the dictionary names are
\* converted by its declared type, the others are left as read
CoerceRow(tm, row) ==
    [c \in DOMAIN row |->
        IF Str(c) \in DOMAIN tm
        THEN CoerceChunk(c, TipoOf(tm[Str(c)]), <<row[c]>>)[1]
        ELSE row[c]]
CoerceRows(tm, rows) == [i \in 1..Len(rows) |-> CoerceRow(tm, rows[i])]

\* the Dictionary File the Builder left for a tier whose source has n rows
DdaOnDisk(tp, n) == TierDda(tp, n)

\* a table left by an earlier run: one row, already converted
PriorTable == [exists |-> TRUE, typed |-> TRUE,
               rows |-> << [c \in ColumnSet |->
                              IF c = COD_ID THEN Str(<<"p", "1">>)
                              ELSE IF c = DATA_BASE THEN PyNone
                              ELSE IF c = nom_cli THEN Str(TXT_ABC)
                              ELSE Num(0)] >>]

\* DataFrame.to_sql(name, engine, if_exists=..., dtype=...): 'replace' drops an
\* existing table and creates it anew, 'append' inserts into it; a table that
\* does not exist is created
to_sql(tbl, rows, if_exists, typed) ==
    IF if_exists = "replace" \/ ~tbl.exists
    THEN [exists |-> TRUE, typed |-> typed, rows |-> rows]
    ELSE [exists |-> TRUE, typed |-> tbl.typed, rows |-> tbl.rows \o rows]

Init ==
    /\ lInputDir \in BOOLEAN /\ lDdaDir \in BOOLEAN
    /\ lFiles \in [Tp -> BOOLEAN] /\ lDdaFiles \in [Tp -> BOOLEAN]
    /\ lInputDir = FALSE => \A tp \in Tp : lFiles[tp] = FALSE
    /\ lDdaDir = FALSE => \A tp \in Tp : lDdaFiles[tp] = FALSE
    /\ recreate \in BOOLEAN
    /\ prior \in {"none", "empty", "tables"}
    /\ lDdaDir = FALSE => prior = "none"        \* the store lies in the same directory
    /\ dbExists = (prior # "none")
    /\ tables = [tp \in Tp |-> IF prior = "tables" THEN PriorTable ELSE NoTable]
    /\ source \in [Tp -> SourceSizes]
    /\ fault \in {NoFault} \cup [tp : Tp, at : 0..MaxChunks]
    \* a run that fails the pre-flight never reads a source: one environment is enough
    /\ (\E tp \in Tp : ~lFiles[tp] \/ ~lDdaFiles[tp]) =>
            (fault = NoFault /\ \A tp \in Tp : source[tp] = 0)
    /\ lpc = "verify" /\ lIdx = 0 /\ dbDeleted = FALSE /\ first = FALSE /\ batch = 0
    /\ pos = 0 /\ tipoMap = <<>> /\ writeLog = <<>> /\ reported = <<>>
    /\ batchReport = [tp \in Tp |-> -1] /\ finished = FALSE
    /\ InferIdle /\ CoerceIdle /\ DdaIdle /\ BuilderIdle

\* verify_files reporting only the first missing item
loader_missing_first ==
    IF ~lInputDir THEN << <<"dir", "input">> >>
    ELSE IF ~lDdaDir THEN << <<"dir", "dda">> >>
    ELSE IF \E j \in 1..3 : ~lFiles[TIPOS[j]]
    THEN << << "data", TIPOS[CHOOSE j \in 1..3 : ~lFiles[TIPOS[j]]
                                /\ \A h \in 1..(j - 1) : lFiles[TIPOS[h]]] >> >>
    ELSE IF \E j \in 1..3 : ~lDdaFiles[TIPOS[j]]
    THEN << << "dda", TIPOS[CHOOSE j \in 1..3 : ~lDdaFiles[TIPOS[j]]
                                /\ \A h \in 1..(j - 1) : lDdaFiles[TIPOS[h]]] >> >>
    ELSE <<>>

\* verify_files: the missing items, in the order they are appended
loader_missing ==
    (IF ~lInputDir THEN << <<"dir", "input">> >> ELSE <<>>)
    \o (IF ~lDdaDir THEN << <<"dir", "dda">> >> ELSE <<>>)
    \o [j \in 1..Len(SelectSeq(TIPOS, LAMBDA tp : ~lFiles[tp])) |->
            << "data", SelectSeq(TIPOS, LAMBDA tp : ~lFiles[tp])[j] >>]
    \o [j \in 1..Len(SelectSeq(TIPOS, LAMBDA tp : ~lDdaFiles[tp])) |->
            << "dda", SelectSeq(TIPOS, LAMBDA tp : ~lDdaFiles[tp])[j] >>]

loaderEnv == <<lInputDir, lDdaDir, lFiles, lDdaFiles, recreate, source, fault, prior>>

VerifyFiles ==
    /\ lpc = "verify"
    /\ IF loader_missing # <<>>
       THEN /\ reported' = loader_missing        \* one [ERRO] line each, then sys.exit(1)
            /\ lpc' = "exit1"
       ELSE /\ reported' = reported
            /\ lpc' = "setup"
    /\ UNCHANGED <<loaderEnv, lIdx, dbExists, dbDeleted, tables, first, batch, pos, tipoMap,
                   writeLog, batchReport, finished,
                   inferVars, coerceVars, ddaVars, builderVars>>

\* __main__ after the pre-flight: OUTPUT_DIR.mkdir, DB_PATH.unlink() when
\* RECREATE_DB and the file exists, create_engine
PrepareStore ==
    /\ lpc = "setup"
    /\ IF recreate /\ dbExists
       THEN /\ dbExists' = FALSE
            /\ dbDeleted' = TRUE
            /\ tables' = [tp \in Tp |-> NoTable]
       ELSE UNCHANGED <<dbExists, dbDeleted, tables>>
    /\ lpc' = "import"
    /\ lIdx' = 1
    /\ UNCHANGED <<loaderEnv, first, batch, pos, tipoMap, writeLog, reported, batchReport,
                   finished, inferVars, coerceVars, ddaVars, builderVars>>

\* an exception in importa_tipo skipped over, the loop going on to the next tier
fault_skips_dataset == "next"
\* importa_tipo and the loop of __main__ have no try: an exception ends the run
fault_policy == "abort"

AfterFaultPc == IF fault_policy = "abort" THEN "aborted"
                ELSE IF lIdx = 3 THEN "finish" ELSE "import"
AfterFaultIdx == IF fault_policy = "abort" THEN lIdx ELSE lIdx + 1

\* importa_tipo up to the loop: load_dda, dtype_map, read_data_chunk
ImportaTipoOpen ==
    /\ lpc = "import"
    /\ lIdx \in 1..3
    /\ \E tp \in {TIPOS[lIdx]} : \E tm \in {load_dda(DdaOnDisk(tp, source[tp]))} :
           IF (fault.tp = tp /\ fault.at = 0)
              \/ (\E key \in DOMAIN tm : TipoOf(tm[key]) = "?")     \* KeyError in dtype_map
           THEN /\ lpc' = AfterFaultPc
                /\ lIdx' = AfterFaultIdx
                /\ UNCHANGED <<tipoMap, first, batch, pos>>
           ELSE /\ tipoMap' = tm
                /\ first' = TRUE
                /\ batch' = 0
                /\ pos' = 0
                /\ lpc' = "chunks"
                /\ lIdx' = lIdx
    /\ UNCHANGED <<loaderEnv, dbExists, dbDeleted, tables, writeLog, reported, batchReport,
                   finished, inferVars, coerceVars, ddaVars, builderVars>>

\* the reader has a chunk left: rows not yet read, or the one empty chunk a source
\* without rows yields
HasChunk(tp) == pos < source[tp] \/ (source[tp] = 0 /\ batch = 0)

\* if_exists of the first chunk's to_sql written as 'append'
if_exists_first_append == "append"
\* if_exists of the first chunk's to_sql
if_exists_first == "replace"
\* if_exists of the later chunks' to_sql written as 'replace'
if_exists_rest_replace == "replace"
\* if_exists of the later chunks' to_sql
if_exists_rest == "append"
\* first left TRUE after the first chunk
first_not_cleared == TRUE
\* first = False after the first chunk
first_after_write == FALSE

\* the reader's next chunk: rows from+1..upto of the tier's source
read_data_chunk(tp, from, upto) == SubSeq(SourceRows(tp, source[tp]), from + 1, upto)

\* one turn of "for chunk in reader": conversion and to_sql of the next chunk
ImportaTipoChunk ==
    /\ lpc = "chunks"
    /\ \E tp \in {TIPOS[lIdx]} : \E upto \in {Min(pos + CHUNKSIZE, source[tp])} :
       \E chunk \in {read_data_chunk(tp, pos, upto)} : \E rows \in {CoerceRows(tipoMap, chunk)} :
           /\ HasChunk(tp)
           /\ batch' = batch + 1
           /\ IF (fault.tp = tp /\ fault.at = batch + 1)
                 \/ (\E key \in DOMAIN tipoMap :                   \* KeyError in chunk[col]
                        key.k # "str" \/ key.s \notin ColumnSet)
              THEN /\ lpc' = AfterFaultPc
                   /\ lIdx' = AfterFaultIdx
                   /\ UNCHANGED <<tables, writeLog, dbExists, first, pos>>
              ELSE /\ tables' = [tables EXCEPT ![tp] =
                          to_sql(@, rows,
                                 IF first THEN if_exists_first ELSE if_exists_rest, first)]
                   /\ writeLog' = Append(writeLog,
                          [tp |-> tp,
                           if_exists |-> IF first THEN if_exists_first ELSE if_exists_rest,
                           dtype |-> first, from |-> pos, n |-> Len(rows),
                           existed |-> tables[tp].exists])
                   /\ dbExists' = TRUE
                   /\ first' = IF first THEN first_after_write ELSE first
                   /\ pos' = upto
                   /\ lpc' = lpc
                   /\ lIdx' = lIdx
    /\ UNCHANGED <<loaderEnv, dbDeleted, tipoMap, reported, batchReport, finished,
                   inferVars, coerceVars, ddaVars, builderVars>>

\* the reader is exhausted: the batch count is printed and the loop of __main__
\* goes on to the next tier
ImportaTipoDone ==
    /\ lpc = "chunks"
    /\ ~HasChunk(TIPOS[lIdx])
    /\ batchReport' = [batchReport EXCEPT ![TIPOS[lIdx]] = batch]
    /\ lpc' = IF lIdx = 3 THEN "finish" ELSE "import"
    /\ lIdx' = lIdx + 1
    /\ UNCHANGED <<loaderEnv, dbExists, dbDeleted, tables, first, batch, pos, tipoMap,
                   writeLog, reported, finished, inferVars, coerceVars, ddaVars, builderVars>>

\* the closing print of __main__
LoaderFinish ==
    /\ lpc = "finish"
    /\ finished' = TRUE
    /\ lpc' = "done"
    /\ UNCHANGED <<loaderEnv, lIdx, dbExists, dbDeleted, tables, first, batch, pos, tipoMap,
                   writeLog, reported, batchReport, inferVars, coerceVars, ddaVars,
                   builderVars>>

Next == VerifyFiles \/ PrepareStore \/ ImportaTipoOpen \/ ImportaTipoChunk
        \/ ImportaTipoDone \/ LoaderFinish
Spec == Init /\ [][Next]_vars

(***************************************************************************)
(* Properties                                                              *)
(***************************************************************************)
SameLetter(a, b) == a = b \/ \E i \in 1..26 : {a, b} = {UpperChars[i], LowerChars[i]}
HasPrefixCI(s, p) == Len(s) >= Len(p) /\ \A i \in 1..Len(p) : SameLetter(s[i], p[i])
EqualsCI(s, p) == Len(s) = Len(p) /\ HasPrefixCI(s, p)
\* the Type Inference Rule, stated on the name's letters ignoring their case
RuleType(name) ==
    IF HasPrefixCI(name, fic_) THEN "INTEGER"
    ELSE IF HasPrefixCI(name, dic_) \/ HasPrefixCI(name, dem_) \/ HasPrefixCI(name, ene_)
            \/ EqualsCI(name, point_x) \/ EqualsCI(name, point_y) THEN "REAL"
    ELSE "TEXT"

\* C1: map_tipo_aneel gives every field name one of INTEGER, REAL, TEXT by the
\* prefix / exact-name rule applied to the name without regard to letter case, and
\* two names that differ only in letter case get the same type.
C1_InferRule ==
    /\ ipc \in {"second", "done"} => iTipo = RuleType(iCampo)
    /\ ipc = "done" => /\ iTipoVariant = RuleType(iVariant)
                       /\ iTipoVariant = iTipo
                       /\ iTipo \in {"INTEGER", "REAL", "TEXT"}
C1_Witness ==
    /\ ipc = "done" /\ iCampo = upper(point_x) /\ iVariant = point_x
    /\ iTipo = "REAL" /\ iTipoVariant = "REAL"

NumberRange == (0 - 20)..20
\* what a value of a numeric column must become: a number stays, the decimal
\* text of a number becomes that number, anything else becomes 0
ExpectedNumeric(c) ==
    IF c.k = "num" THEN c
    ELSE IF c.k = "str" /\ \E v \in NumberRange : IntText(v) = c.s
         THEN Num(CHOOSE v \in NumberRange : IntText(v) = c.s)
    ELSE Num(0)

MatchesSourceFormat(c, dt, fl) ==
    c.k = "str" /\ IsCalendarDate(dt) /\ upper(c.s) = SrcDateText(dt, fl)
ExpectedDate(c) ==
    IF \E dt \in DateStamps, fl \in 1..MaxFrac : MatchesSourceFormat(c, dt, fl)
    THEN Str(IsoDateText(CHOOSE dt \in DateStamps :
                            \E fl \in 1..MaxFrac : MatchesSourceFormat(c, dt, fl)))
    ELSE PyNone

\* C8: every value the Loader writes in a date field is the ISO-8601 text of the
\* source value when that value is in the source format (so that
\* 31DEC2023:00:00:00.0000000 becomes 2023-12-31T00:00:00), and an explicit null
\* when the value is malformed or missing.
C8_DateCoercion ==
    (cpc = "done" /\ cCol \in DATE_FIELDS) =>
        \A i \in 1..Len(cValues) : cChunk[i] = ExpectedDate(cValues[i])

\* the name -> declared type content of a Dictionary File, as texts
NameTypeContent(file) ==
    [r \in 1..(Len(file) - 1) |-> << ParseLine(file[r + 1])[1], ParseLine(file[r + 1])[3] >>]

\* C6: the mapping load_dda reads from the file processar_tipo wrote has exactly the
\* dataset's column names as its fields and, for each, the declared type
\* map_tipo_aneel inferred; and a second run of the Builder on the same source
\* leaves a file with the same name / declared-type content.
C6_DictionaryRoundTrip ==
    /\ dpc = "loaded" =>
          /\ DOMAIN dMap = { Str(dColumns[i]) : i \in 1..Len(dColumns) }
          /\ \A i \in 1..Len(dColumns) :
                Str(dColumns[i]) \in DOMAIN dMap
                    => TipoOf(dMap[Str(dColumns[i])]) = map_tipo_aneel(dColumns[i])
    /\ dpc = "rebuilt" => NameTypeContent(dFile) = NameTypeContent(dFirstFile)

IsPrefix(a, b) == Len(a) <= Len(b) /\ SubSeq(b, 1, Len(a)) = a

\* C4: once the pre-flight has passed, AT, MT and BT are attempted once each, in
\* that order; an exception in one dataset is caught inside processar_tipo and the
\* run goes on to the later datasets, so that at the end the Dictionary File of
\* every dataset that did not fail has been produced, whichever datasets failed.
C4_BuilderPartialSuccess ==
    /\ IsPrefix(bAttempted, TIPOS)
    /\ bpc \in {"verify", "exit1", "loop", "finish", "done"}
    /\ bpc = "loop" => (bIdx \in 1..3 /\ bAttempted = SubSeq(TIPOS, 1, bIdx - 1))
    /\ bpc \in {"finish", "done"} =>
          /\ bAttempted = TIPOS
          /\ \A tp \in Tp : bFault[tp] = "none" => bDda[tp] = TierDda(tp, MaxRows)
          /\ bErrors = SelectSeq(TIPOS, LAMBDA tp : bFault[tp] # "none")
C4_Witness ==
    /\ bpc = "done"
    /\ bFault["at"] = "none" /\ bFault["mt"] = "read" /\ bFault["bt"] = "none"
    /\ bErrors = <<"mt">>
    /\ bDda["at"] = TierDda("at", MaxRows) /\ bDda["bt"] = TierDda("bt", MaxRows)

\* the to_sql calls made for one tier, in order
LogOf(tp) == SelectSeq(writeLog, LAMBDA e : e.tp = tp)
\* chunks a source of n rows is read in
NumChunks(n) == IF n = 0 THEN 1 ELSE (n + CHUNKSIZE - 1) \div CHUNKSIZE
\* every source, converted by the dictionary the Builder left for it; rows 1..n of
\* the tier's source as they must stand in the table
ConvertedSource ==
    [tp \in Tp |-> [n \in SourceSizes |->
        CoerceRows(load_dda(DdaOnDisk(tp, n)), SourceRows(tp, n))]]
Expected(tp, n) == SubSeq(ConvertedSource[tp][source[tp]], 1, n)
RECURSIVE SumN(_)
SumN(log) == IF log = <<>> THEN 0 ELSE Head(log).n + SumN(Tail(log))
\* the table as the run found it once the store was prepared
TableAtStart(tp) == IF prior = "tables" /\ ~dbDeleted THEN PriorTable ELSE NoTable

\* C2: for every dataset whose load has completed, table uc_<tier>_pj holds exactly
\* the source rows, each once and in order, the rows written over all chunks add
\* up to the source's rows, and the reported batch count is the number of chunks
\* written.
C2_ChunkedLoadComplete ==
    \A tp \in Tp : batchReport[tp] >= 0 =>
        /\ tables[tp].exists
        /\ tables[tp].rows = Expected(tp, source[tp])
        /\ SumN(LogOf(tp)) = source[tp]
        /\ batchReport[tp] = Len(LogOf(tp))
        /\ batchReport[tp] = NumChunks(source[tp])
C2_Witness ==
    /\ lpc = "done" /\ ~recreate /\ prior = "tables"
    /\ source["at"] = 2 * CHUNKSIZE + 1 /\ batchReport["at"] = 3
    /\ Len(tables["at"].rows) = 2 * CHUNKSIZE + 1
    /\ source["mt"] = CHUNKSIZE /\ batchReport["mt"] = 1
    /\ source["bt"] = 0 /\ batchReport["bt"] = 1 /\ tables["bt"].rows = <<>>

\* the required paths that do not exist
MissingPaths ==
    { <<"dir", d>> : d \in { x \in {"input"} : ~lInputDir } \cup { x \in {"dda"} : ~lDdaDir } }
    \cup { <<"data", tp>> : tp \in { x \in Tp : ~lFiles[x] } }
    \cup { <<"dda", tp>> : tp \in { x \in Tp : ~lDdaFiles[x] } }
StoreUntouched ==
    /\ dbExists = (prior # "none") /\ ~dbDeleted /\ writeLog = <<>>
    /\ \A tp \in Tp : tables[tp] = (IF prior = "tables" THEN PriorTable ELSE NoTable)

\* C3: when any of the two directories, the three source files and the three
\* Dictionary Files are missing, verify_files reports every one of them and the run
\* exits before the store is deleted or created and before any dataset is loaded;
\* when none is missing the run goes on.
C3_PreflightAggregation ==
    /\ lpc = "exit1" =>
          /\ MissingPaths # {}
          /\ { reported[i] : i \in 1..Len(reported) } = MissingPaths
          /\ Len(reported) = Cardinality(MissingPaths)
          /\ StoreUntouched /\ ~finished /\ \A tp \in Tp : batchReport[tp] = -1
    /\ lpc = "verify" => StoreUntouched
    /\ lpc \notin {"verify", "exit1"} => (MissingPaths = {} /\ reported = <<>>)
C3_Witness ==
    /\ lpc = "exit1" /\ Len(reported) = 4 /\ prior = "tables" /\ recreate
    /\ lInputDir /\ lDdaDir /\ tables["at"] = PriorTable

\* the injected fault is met by the run: its tier is reached and has that chunk
FaultFires == fault.tp # "none" /\ fault.at <= NumChunks(source[fault.tp])
Later(tp) == { x \in Tp : TierOffset(x) > TierOffset(tp) }
Earlier(tp) == { x \in Tp : TierOffset(x) < TierOffset(tp) }

\* C5: a failure while loading a dataset (in load_dda, in opening the reader, or in
\* any chunk) ends the run: no later chunk of that dataset and no later dataset is
\* written, the chunks written before the failure stay in the store, and the
\* completion message is not printed.
C5_LoaderFaultPropagation ==
    /\ FaultFires =>
          /\ ~finished /\ lpc # "done"
          /\ batchReport[fault.tp] = -1
          /\ Len(LogOf(fault.tp)) <= (IF fault.at = 0 THEN 0 ELSE fault.at - 1)
          /\ \A tp \in Later(fault.tp) :
                /\ LogOf(tp) = <<>> /\ batchReport[tp] = -1
                /\ lpc \notin {"verify", "exit1", "setup"} => tables[tp] = TableAtStart(tp)
    /\ lpc = "aborted" =>
          /\ FaultFires /\ TIPOS[lIdx] = fault.tp
          /\ Len(LogOf(fault.tp)) = (IF fault.at = 0 THEN 0 ELSE fault.at - 1)
          /\ fault.at >= 2 =>
                tables[fault.tp].rows = Expected(fault.tp, (fault.at - 1) * CHUNKSIZE)
          /\ fault.at <= 1 => tables[fault.tp] = TableAtStart(fault.tp)
          /\ \A tp \in Earlier(fault.tp) :
                batchReport[tp] >= 0 /\ tables[tp].rows = Expected(tp, source[tp])
C5_Witness ==
    /\ lpc = "aborted" /\ fault = [tp |-> "mt", at |-> 2] /\ prior = "none"
    /\ Len(tables["mt"].rows) = CHUNKSIZE /\ Len(LogOf("mt")) = 1
    /\ tables["at"].exists /\ ~tables["bt"].exists /\ ~finished

\* C9 as stated: a table left by a prior run is dropped on the first chunk only
\* when recreate mode is enabled (the drop depends on the recreate flag); with
\* recreate set the existing store is deleted after the pre-flight and before any
\* dataset is loaded; after the drop the table is only appended to.
C9_DropDependsOnRecreate ==
    /\ \A i \in 1..Len(writeLog) :
          (writeLog[i].if_exists = "replace" /\ writeLog[i].existed) => recreate
    /\ (recreate /\ prior # "none" /\ lpc \notin {"verify", "exit1", "setup"}) => dbDeleted
    /\ \A tp \in Tp : \A k \in 2..Len(LogOf(tp)) : LogOf(tp)[k].if_exists = "append"

\* C9 amended: a table left by a prior run is dropped and recreated on the first
\* chunk of a run whenever it exists, whether recreate mode is enabled or not; the
\* recreate flag decides only whether an existing store is deleted, which happens
\* after the pre-flight and before any dataset is loaded; after the first chunk
\* the table is only appended to for the rest of the run.
C9_RecreateMode ==
    /\ \A tp \in Tp : LogOf(tp) # <<>> =>
          /\ LogOf(tp)[1].if_exists = "replace"
          /\ LogOf(tp)[1].existed = TableAtStart(tp).exists
          /\ tables[tp].rows = Expected(tp, SumN(LogOf(tp)))
          /\ \A k \in 2..Len(LogOf(tp)) :
                LogOf(tp)[k].if_exists = "append" /\ LogOf(tp)[k].existed
    /\ \A tp \in Tp : (LogOf(tp) = <<>> /\ lpc \notin {"verify", "exit1", "setup"})
                        => tables[tp] = TableAtStart(tp)
    /\ lpc \in {"verify", "exit1", "setup"} => (~dbDeleted /\ writeLog = <<>>)
    /\ lpc \notin {"verify", "exit1", "setup"} =>
          (dbDeleted <=> (recreate /\ prior # "none"))
    /\ dbDeleted => \A tp \in Tp : \A i \in 1..Len(tables[tp].rows) :
                        tables[tp].rows[i] # PriorTable.rows[1]
C9_Witness ==
    /\ lpc = "done" /\ ~recreate /\ prior = "tables" /\ ~dbDeleted
    /\ writeLog[1].existed /\ writeLog[1].if_exists = "replace"
    /\ Len(LogOf("at")) = 3 /\ tables["at"].rows = Expected("at", source["at"])

\* C10: the writes of a dataset are one create-or-replace carrying the column
\* types for its first chunk, then only appends without types; they take the
\* source's rows chunk by chunk in order, one write per turn of the loop; the
\* datasets are written one after the other in the order at, mt, bt; and no write
\* is made for a dataset before its reader has yielded a chunk.
C10_WriteOrdering ==
    /\ \A tp \in Tp : \A k \in 1..Len(LogOf(tp)) :
          /\ LogOf(tp)[k].if_exists = (IF k = 1 THEN "replace" ELSE "append")
          /\ LogOf(tp)[k].dtype = (k = 1)
          /\ LogOf(tp)[k].from = (k - 1) * CHUNKSIZE
          /\ LogOf(tp)[k].n = Min(CHUNKSIZE, source[tp] - (k - 1) * CHUNKSIZE)
    /\ \A i, j \in 1..Len(writeLog) :
          i < j => TierOffset(writeLog[i].tp) <= TierOffset(writeLog[j].tp)
    /\ lpc = "chunks" => Len(LogOf(TIPOS[lIdx])) = batch
    /\ lpc = "import" => \A tp \in Tp : TierOffset(tp) >= lIdx => LogOf(tp) = <<>>
C10_Witness ==
    /\ lpc = "done" /\ Len(LogOf("at")) = 3 /\ Len(LogOf("mt")) = 1
    /\ LogOf("at")[1].if_exists = "replace" /\ LogOf("at")[1].dtype
    /\ LogOf("at")[3].if_exists = "append" /\ ~LogOf("at")[3].dtype
    /\ LogOf("at")[3].n = 1

=============================================================================
